---- MODULE Spec2Model ----
(***************************************************************************)
(* Model of resources/python/lightning_whisper_transcriber.py: one process *)
(* invocation of the command-line adapter.  The state is the command line, *)
(* the file system, the parsed arguments, the two output streams, the exit *)
(* status and the log of calls made to the external collaborators (module  *)
(* import, pip subprocess, os.path.exists, the inference engine).          *)
(***************************************************************************)
EXTENDS Integers, Sequences, FiniteSets, TLC

VARIABLES argv, fs, pc, args, stdout, stderr, exitCode, calls, engine

vars == <<argv, fs, pc, args, stdout, stderr, exitCode, calls, engine>>

\* Longest segment list the stub engine returns.
MaxSegments == 1

(***************************************************************************)
(* Python values.  A str is the sequence of the pieces it was built from   *)
(* (an f-string or a concatenation appends pieces; "" has no piece).       *)
(***************************************************************************)
PyNone == [t |-> "None", s |-> <<>>, n |-> 0]
PyBool(b) == [t |-> "bool", s |-> <<>>, n |-> IF b THEN 1 ELSE 0]
PyInt(k) == [t |-> "int", s |-> <<>>, n |-> k]
PyStr(pieces) == [t |-> "str", s |-> pieces, n |-> 0]
PyList(items) == [t |-> "list", s |-> items, n |-> 0]
\* A value json has no encoding for (bytes, a numpy array, ...).
PyObject == [t |-> "object", s |-> <<>>, n |-> 0]

\* Python truthiness, as used by `not args.audio_path`.
Truthy(v) ==
    CASE v.t = "None" -> FALSE
      [] v.t = "bool" -> v.n = 1
      [] v.t = "int" -> v.n # 0
      [] v.t = "str" -> v.s # <<>>
      [] v.t = "list" -> v.s # <<>>
      [] OTHER -> TRUE

\* The outcome of a call: a returned value or a raised exception.
Return(v) == [raised |-> FALSE, exc |-> "", val |-> v]
Raise(e) == [raised |-> TRUE, exc |-> e, val |-> PyNone]

(***************************************************************************)
(* json.dumps: a dict (a key-ordered sequence of <<key, value>>) becomes a *)
(* JSON object (the same keys in order, each value encoded); a value that  *)
(* has no encoding raises TypeError.                                       *)
(***************************************************************************)
Serializable(v) == v.t \in {"None", "bool", "int", "str", "list"}

JsonValue(v) ==
    CASE v.t = "None" -> [j |-> "null", s |-> <<>>, n |-> 0]
      [] v.t = "bool" -> [j |-> IF v.n = 1 THEN "true" ELSE "false", s |-> <<>>, n |-> 0]
      [] v.t = "int" -> [j |-> "number", s |-> <<>>, n |-> v.n]
      [] v.t = "str" -> [j |-> "string", s |-> v.s, n |-> 0]
      [] OTHER -> [j |-> "array", s |-> v.s, n |-> 0]

json_dumps(d) ==
    IF \A i \in 1..Len(d) : Serializable(d[i][2])
    THEN [raised |-> FALSE, exc |-> "",
          val |-> [i \in 1..Len(d) |-> <<d[i][1], JsonValue(d[i][2])>>]]
    ELSE [raised |-> TRUE, exc |-> "TypeError", val |-> <<>>]

(***************************************************************************)
(* The command line.                                                       *)
(***************************************************************************)
Absent == "<absent>"
AudioPathTokens == {Absent, "", "a.wav", "b.wav"}
ModelTokens == {Absent, "tiny"}
BatchSizeTokens == {Absent, "4", "x"}
QuantTokens == {Absent, "4bit", "8bit", "2bit"}
Files == {"a.wav"}

DefaultModel == "distil-medium.en"
DefaultBatchSize == 12
QuantChoices == {"4bit", "8bit"}

\* A command-line token as a Python str.
StrOf(tok) == IF tok = "" THEN PyStr(<<>>) ELSE PyStr(<<tok>>)

\* int(tok), argparse's type=int: the tokens that are integer literals.
IsIntLiteral(tok) == tok \in {"4", "12"}
IntOf(tok) == CASE tok = "4" -> 4 [] OTHER -> 12

\* Mutant: --quant declared without choices=[...].
ArgvAccepted_NoChoices(a) ==
    a.batch_size = Absent \/ IsIntLiteral(a.batch_size)

\* argparse accepts the command line (otherwise parser.error: usage on
\* stderr, exit status 2).
ArgvAccepted(a) ==
    /\ a.batch_size = Absent \/ IsIntLiteral(a.batch_size)
    /\ a.quant = Absent \/ a.quant \in QuantChoices

\* The namespace parse_args returns.
Namespace(a) ==
    [audio_path |-> IF a.audio_path = Absent THEN PyNone ELSE StrOf(a.audio_path),
     model |-> IF a.model = Absent THEN PyStr(<<DefaultModel>>) ELSE StrOf(a.model),
     batch_size |-> IF a.batch_size = Absent THEN PyInt(DefaultBatchSize)
                    ELSE PyInt(IntOf(a.batch_size)),
     quant |-> IF a.quant = Absent THEN PyNone ELSE StrOf(a.quant),
     check_deps |-> a.check_deps,
     install_deps |-> a.install_deps]

NoArgs ==
    [audio_path |-> PyNone, model |-> PyNone, batch_size |-> PyNone,
     quant |-> PyNone, check_deps |-> FALSE, install_deps |-> FALSE]

(***************************************************************************)
(* The external collaborators and what they can do.                        *)
(***************************************************************************)
\* import lightning_whisper_mlx: succeeds, or raises ModuleNotFoundError /
\* ImportError, or the module's own top-level code raises something else.
ImportOutcomes == {"resolves", "ModuleNotFoundError", "ImportError", "RuntimeError"}

\* subprocess.run(..., check=True): pip exits 0, exits non-zero
\* (CalledProcessError), or the child cannot be started (OSError).
InstallerOutcomes == {"exit0", "CalledProcessError", "OSError"}

ResultKeys == {"text", "segments", "language"}

SegmentLists == UNION {[1..k -> {"seg"}] : k \in 0..MaxSegments}

KeyValues(k) ==
    CASE k = "text" -> {PyStr(<<"hello">>), PyStr(<<>>)}
      [] k = "segments" -> {PyList(l) : l \in SegmentLists} \cup {PyObject}
      [] OTHER -> {PyStr(<<"en">>)}

AllValues == UNION {KeyValues(k) : k \in ResultKeys}

\* The dicts whisper.transcribe may return: any subset of the three keys.
EngineMappings ==
    {m \in UNION {[K -> AllValues] : K \in SUBSET ResultKeys} :
        \A k \in DOMAIN m : m[k] \in KeyValues(k)}

NoMapping == [k \in {} |-> PyNone]

\* What the engine does in transcribe_audio's try block.
EngineOutcomes ==
    {[kind |-> k, msg |-> <<"boom">>, map |-> NoMapping] :
        k \in {"init_raises", "transcribe_raises"}}
    \cup {[kind |-> "import_raises",
           msg |-> <<"cannot import name 'LightningWhisperMLX'">>,
           map |-> NoMapping]}
    \cup {[kind |-> "returns_non_mapping",
           msg |-> <<"'NoneType' object has no attribute 'get'">>,
           map |-> NoMapping]}
    \cup {[kind |-> "returns_mapping", msg |-> <<>>, map |-> m] : m \in EngineMappings}

NotCalled == [kind |-> "not_called", msg |-> <<>>, map |-> NoMapping]

Call(op, out) == [op |-> op, out |-> out]


(***************************************************************************)
(* The three functions of the script.                                      *)
(***************************************************************************)
\* check_dependencies(): only ImportError (and its subclass
\* ModuleNotFoundError) is caught; anything else the import raises escapes.
check_dependencies(outcome) ==
    CASE outcome = "resolves" -> Return(PyBool(TRUE))
      [] outcome \in {"ModuleNotFoundError", "ImportError"} -> Return(PyBool(FALSE))
      [] OTHER -> Raise(outcome)

\* install_dependencies(): only CalledProcessError is caught.
install_dependencies(outcome) ==
    CASE outcome = "exit0" -> Return(PyBool(TRUE))
      [] outcome = "CalledProcessError" -> Return(PyBool(FALSE))
      [] OTHER -> Raise(outcome)

\* What install_dependencies() writes to sys.stderr; pip's own output is
\* captured (capture_output=True) and reaches neither stream otherwise.
install_stderr(outcome) ==
    IF outcome = "CalledProcessError" THEN <<"Installation failed: <pip stderr>">> ELSE <<>>

\* dict.get(key, default)
Get(m, k, default) == IF k \in DOMAIN m THEN m[k] ELSE default

\* The collaborator calls made inside transcribe_audio's try block.
EngineCalls(eng) ==
    CASE eng.kind = "import_raises" -> <<Call("import_engine", "raises")>>
      [] eng.kind = "init_raises" ->
            <<Call("import_engine", "ok"), Call("LightningWhisperMLX", "raises")>>
      [] eng.kind = "transcribe_raises" ->
            <<Call("import_engine", "ok"), Call("LightningWhisperMLX", "ok"),
              Call("transcribe", "raises")>>
      [] OTHER ->
            <<Call("import_engine", "ok"), Call("LightningWhisperMLX", "ok"),
              Call("transcribe", "ok")>>

\* Mutant: the except branch reports the signature's defaults instead of the
\* arguments it was called with.
transcribe_audio_EchoDefaults(audio_path, model, batch_size, quant, eng) ==
    IF eng.kind = "returns_mapping"
    THEN << <<"success", PyBool(TRUE)>>,
            <<"text", Get(eng.map, "text", PyStr(<<>>))>>,
            <<"segments", Get(eng.map, "segments", PyList(<<>>))>>,
            <<"language", Get(eng.map, "language", PyStr(<<>>))>>,
            <<"model", model>>,
            <<"batch_size", batch_size>>,
            <<"quant", quant>> >>
    ELSE << <<"success", PyBool(FALSE)>>,
            <<"error", PyStr(eng.msg)>>,
            <<"model", PyStr(<<DefaultModel>>)>>,
            <<"batch_size", PyInt(DefaultBatchSize)>>,
            <<"quant", PyNone>> >>

\* Mutant: the except branch returns only success and error.
transcribe_audio_BareFailure(audio_path, model, batch_size, quant, eng) ==
    IF eng.kind = "returns_mapping"
    THEN << <<"success", PyBool(TRUE)>>,
            <<"text", Get(eng.map, "text", PyStr(<<>>))>>,
            <<"segments", Get(eng.map, "segments", PyList(<<>>))>>,
            <<"language", Get(eng.map, "language", PyStr(<<>>))>>,
            <<"model", model>>,
            <<"batch_size", batch_size>>,
            <<"quant", quant>> >>
    ELSE << <<"success", PyBool(FALSE)>>,
            <<"error", PyStr(eng.msg)>> >>

\* transcribe_audio(): the whole body is inside try/except Exception, so it
\* always returns a dict.
transcribe_audio(audio_path, model, batch_size, quant, eng) ==
    IF eng.kind = "returns_mapping"
    THEN << <<"success", PyBool(TRUE)>>,
            <<"text", Get(eng.map, "text", PyStr(<<>>))>>,
            <<"segments", Get(eng.map, "segments", PyList(<<>>))>>,
            <<"language", Get(eng.map, "language", PyStr(<<>>))>>,
            <<"model", model>>,
            <<"batch_size", batch_size>>,
            <<"quant", quant>> >>
    ELSE << <<"success", PyBool(FALSE)>>,
            <<"error", PyStr(eng.msg)>>,
            <<"model", model>>,
            <<"batch_size", batch_size>>,
            <<"quant", quant>> >>

\* os.path.exists(path)
path_exists(path) == path.t = "str" /\ Len(path.s) = 1 /\ path.s[1] \in fs

\* The {success: False, error: ...} dict of a failed pre-flight check.
PreflightError(pieces) ==
    << <<"success", PyBool(FALSE)>>, <<"error", PyStr(pieces)>> >>

(***************************************************************************)
(* How the process ends.                                                   *)
(***************************************************************************)
\* print(json.dumps(result)) followed by return / sys.exit(code); a
\* json.dumps that raises is an uncaught exception.
EmitAndExit(result, err, code) ==
    LET d == json_dumps(result) IN
    /\ pc' = "exited"
    /\ IF d.raised
       THEN /\ stdout' = stdout
            /\ stderr' = stderr \o err \o <<"Traceback">>
            /\ exitCode' = 1
       ELSE /\ stdout' = Append(stdout, d.val)
            /\ stderr' = stderr \o err
            /\ exitCode' = code

\* An exception nobody catches: traceback on stderr, exit status 1.
Uncaught ==
    /\ pc' = "exited"
    /\ stdout' = stdout
    /\ stderr' = Append(stderr, "Traceback")
    /\ exitCode' = 1

(***************************************************************************)
(* The state machine: main(), one action per step.                         *)
(***************************************************************************)
NoExit == 0 - 1

Init ==
    /\ argv \in [audio_path : AudioPathTokens, model : ModelTokens,
                 batch_size : BatchSizeTokens, quant : QuantTokens,
                 check_deps : BOOLEAN, install_deps : BOOLEAN]
    /\ fs \in SUBSET Files
    /\ pc = "start"
    /\ args = NoArgs
    /\ stdout = <<>>
    /\ stderr = <<>>
    /\ exitCode = NoExit
    /\ calls = <<>>
    /\ engine = NotCalled

\* parser.parse_args()
ParseArgs ==
    /\ pc = "start"
    /\ IF ArgvAccepted(argv)
       THEN /\ args' = Namespace(argv)
            /\ pc' = "parsed"
            /\ UNCHANGED <<stderr, exitCode>>
       ELSE /\ args' = args
            /\ pc' = "exited"
            /\ stderr' = Append(stderr, "usage")
            /\ exitCode' = 2
    /\ UNCHANGED <<argv, fs, stdout, calls, engine>>

\* if args.check_deps: ...
CheckDepsMode ==
    /\ pc = "parsed"
    /\ args.check_deps
    /\ \E o \in ImportOutcomes :
          LET r == check_dependencies(o) IN
          /\ calls' = Append(calls, Call("import", o))
          /\ IF r.raised
             THEN Uncaught
             ELSE EmitAndExit(<< <<"dependencies_installed", r.val>> >>, <<>>, 0)
    /\ UNCHANGED <<argv, fs, args, engine>>

\* Mutant: the install branch does not depend on the check branch having
\* returned.
InstallDepsMode_NoPrecedence ==
    /\ pc = "parsed"
    /\ args.install_deps
    /\ \E o \in InstallerOutcomes :
          LET r == install_dependencies(o) IN
          /\ calls' = Append(calls, Call("pip", o))
          /\ IF r.raised
             THEN Uncaught
             ELSE EmitAndExit(<< <<"installation_success", r.val>> >>,
                              install_stderr(o), 0)
    /\ UNCHANGED <<argv, fs, args, engine>>

\* if args.install_deps: ...
InstallDepsMode ==
    /\ pc = "parsed"
    /\ ~args.check_deps
    /\ args.install_deps
    /\ \E o \in InstallerOutcomes :
          LET r == install_dependencies(o) IN
          /\ calls' = Append(calls, Call("pip", o))
          /\ IF r.raised
             THEN Uncaught
             ELSE EmitAndExit(<< <<"installation_success", r.val>> >>,
                              install_stderr(o), 0)
    /\ UNCHANGED <<argv, fs, args, engine>>

\* Mutant: the test is `args.audio_path is None` instead of `not args.audio_path`.
PreflightAudioPath_IsNone ==
    /\ pc = "parsed"
    /\ ~args.check_deps
    /\ ~args.install_deps
    /\ IF args.audio_path = PyNone
       THEN EmitAndExit(PreflightError(<<"Audio file path is required for transcription">>),
                        <<>>, 1)
       ELSE /\ pc' = "preflight_deps"
            /\ UNCHANGED <<stdout, stderr, exitCode>>
    /\ UNCHANGED <<argv, fs, args, calls, engine>>

\* if not args.audio_path: ...
PreflightAudioPath ==
    /\ pc = "parsed"
    /\ ~args.check_deps
    /\ ~args.install_deps
    /\ IF ~Truthy(args.audio_path)
       THEN EmitAndExit(PreflightError(<<"Audio file path is required for transcription">>),
                        <<>>, 1)
       ELSE /\ pc' = "preflight_deps"
            /\ UNCHANGED <<stdout, stderr, exitCode>>
    /\ UNCHANGED <<argv, fs, args, calls, engine>>

\* if not check_dependencies(): ...
PreflightDeps ==
    /\ pc = "preflight_deps"
    /\ \E o \in ImportOutcomes :
          LET r == check_dependencies(o) IN
          /\ calls' = Append(calls, Call("import", o))
          /\ IF r.raised
             THEN Uncaught
             ELSE IF ~Truthy(r.val)
             THEN EmitAndExit(
                      PreflightError(
                          <<"lightning-whisper-mlx is not installed. Please install it first.">>),
                      <<>>, 1)
             ELSE /\ pc' = "preflight_exists"
                  /\ UNCHANGED <<stdout, stderr, exitCode>>
    /\ UNCHANGED <<argv, fs, args, engine>>

\* Mutant: the file-not-found branch prints its error but lacks sys.exit(1)
\* and falls through to the transcription.
PreflightExists_FallsThrough ==
    /\ pc = "preflight_exists"
    /\ LET found == path_exists(args.audio_path)
           d == json_dumps(PreflightError(<<"Audio file not found: ">> \o args.audio_path.s))
       IN
       /\ calls' = Append(calls, Call("exists", IF found THEN "True" ELSE "False"))
       /\ stdout' = IF found THEN stdout ELSE Append(stdout, d.val)
       /\ pc' = "transcribe"
       /\ UNCHANGED <<stderr, exitCode>>
    /\ UNCHANGED <<argv, fs, args, engine>>

\* if not os.path.exists(args.audio_path): ...
PreflightExists ==
    /\ pc = "preflight_exists"
    /\ LET found == path_exists(args.audio_path) IN
       /\ calls' = Append(calls, Call("exists", IF found THEN "True" ELSE "False"))
       /\ IF ~found
          THEN EmitAndExit(PreflightError(<<"Audio file not found: ">> \o args.audio_path.s),
                           <<>>, 1)
          ELSE /\ pc' = "transcribe"
               /\ UNCHANGED <<stdout, stderr, exitCode>>
    /\ UNCHANGED <<argv, fs, args, engine>>

\* result = transcribe_audio(...); print(json.dumps(result))
Transcribe ==
    /\ pc = "transcribe"
    /\ \E eng \in EngineOutcomes :
          /\ engine' = eng
          /\ calls' = calls \o EngineCalls(eng)
          /\ EmitAndExit(transcribe_audio(args.audio_path, args.model, args.batch_size,
                                          args.quant, eng),
                         <<>>, 0)
    /\ UNCHANGED <<argv, fs, args>>

Next ==
    \/ ParseArgs
    \/ CheckDepsMode
    \/ InstallDepsMode
    \/ PreflightAudioPath
    \/ PreflightDeps
    \/ PreflightExists
    \/ Transcribe

Spec == Init /\ [][Next]_vars


(***************************************************************************)
(* Vocabulary of the properties: the invocation as the caller sees it, and *)
(* the JSON documents the caller expects, written out independently of     *)
(* the script's own dict construction.                                     *)
(***************************************************************************)
Done == pc = "exited"

CheckMode == argv.check_deps
InstallMode == ~argv.check_deps /\ argv.install_deps
TranscribeMode == ~argv.check_deps /\ ~argv.install_deps

InvalidQuant == argv.quant \notin {Absent, "4bit", "8bit"}
InvalidBatchSize == argv.batch_size \notin {Absent, "4"}
CommandLineValid == ~InvalidQuant /\ ~InvalidBatchSize

PathMissing == argv.audio_path \in {Absent, ""}

JNull == [j |-> "null", s |-> <<>>, n |-> 0]
JBool(b) == [j |-> IF b THEN "true" ELSE "false", s |-> <<>>, n |-> 0]
JNum(k) == [j |-> "number", s |-> <<>>, n |-> k]
JStr(pieces) == [j |-> "string", s |-> pieces, n |-> 0]
JArr(items) == [j |-> "array", s |-> items, n |-> 0]

GivenModel == IF argv.model = Absent THEN JStr(<<"distil-medium.en">>) ELSE JStr(<<argv.model>>)
GivenBatchSize == IF argv.batch_size = "4" THEN JNum(4) ELSE JNum(12)
GivenQuant == IF argv.quant = Absent THEN JNull ELSE JStr(<<argv.quant>>)

PreflightDoc(pieces) == << <<"success", JBool(FALSE)>>, <<"error", JStr(pieces)>> >>

FailureDoc(pieces) ==
    << <<"success", JBool(FALSE)>>, <<"error", JStr(pieces)>>, <<"model", GivenModel>>,
       <<"batch_size", GivenBatchSize>>, <<"quant", GivenQuant>> >>

EngineField(k, default) ==
    IF k \in DOMAIN engine.map THEN JsonValue(engine.map[k]) ELSE default

SuccessDoc ==
    << <<"success", JBool(TRUE)>>,
       <<"text", EngineField("text", JStr(<<>>))>>,
       <<"segments", EngineField("segments", JArr(<<>>))>>,
       <<"language", EngineField("language", JStr(<<>>))>>,
       <<"model", GivenModel>>, <<"batch_size", GivenBatchSize>>, <<"quant", GivenQuant>> >>

Keys(doc) == [i \in 1..Len(doc) |-> doc[i][1]]
SuccessKeys == <<"success", "text", "segments", "language", "model", "batch_size", "quant">>
FailureKeys == <<"success", "error", "model", "batch_size", "quant">>
PreflightKeys == <<"success", "error">>

Called(op) == \E i \in 1..Len(calls) : calls[i].op = op
CalledWith(op, out) == \E i \in 1..Len(calls) : calls[i] = Call(op, out)
CountOf(op) == Cardinality({i \in 1..Len(calls) : calls[i].op = op})

EngineRaised ==
    engine.kind \in {"import_raises", "init_raises", "transcribe_raises",
                     "returns_non_mapping"}

\* The process died of an exception nobody caught.
DiedUncaught ==
    \/ CalledWith("import", "RuntimeError")
    \/ CalledWith("pip", "OSError")
    \/ /\ engine.kind = "returns_mapping"
       /\ \E k \in DOMAIN engine.map : engine.map[k].t = "object"

\* One of the three pre-flight checks of transcribe mode gave a failing verdict.
PathCheckFailed == TranscribeMode /\ CommandLineValid /\ PathMissing
DepCheckFailed ==
    /\ TranscribeMode
    /\ CalledWith("import", "ModuleNotFoundError") \/ CalledWith("import", "ImportError")
FileCheckFailed == CalledWith("exists", "False")
PreflightFailed == PathCheckFailed \/ DepCheckFailed \/ FileCheckFailed


(***************************************************************************)
(* The claims.                                                             *)
(***************************************************************************)

\* C1: whatever the invocation, when the process has exited exactly one JSON
\* document has been written to standard output.
C1_ExactlyOneDocument == Done => Len(stdout) = 1

C3_EngineFailureReported ==
    (Done /\ EngineRaised) =>
        /\ stdout = <<FailureDoc(engine.msg)>>
        /\ exitCode = 0

C3_Witness ==
    /\ Done
    /\ engine.kind = "returns_non_mapping"
    /\ argv.quant = "8bit"
    /\ argv.batch_size = "4"
    /\ argv.model = "tiny"
    /\ Len(stdout) = 1

\* C4: in transcribe mode the checks run in the order path given, dependency
\* resolvable, file exists; the first failing one decides the message, the exit
\* status is 1 and no later check (nor the engine) is evaluated; "" counts as
\* a missing path.
C4_PreflightOrder ==
    (Done /\ TranscribeMode /\ CommandLineValid) =>
        /\ PathMissing =>
              /\ stdout = <<PreflightDoc(<<"Audio file path is required for transcription">>)>>
              /\ exitCode = 1
              /\ calls = <<>>
        /\ ~PathMissing =>
              /\ Len(calls) >= 1
              /\ calls[1].op = "import"
              /\ calls[1].out \in {"ModuleNotFoundError", "ImportError"} =>
                    /\ stdout = <<PreflightDoc(
                           <<"lightning-whisper-mlx is not installed. Please install it first.">>)>>
                    /\ exitCode = 1
                    /\ Len(calls) = 1
              /\ calls[1].out = "resolves" =>
                    /\ Len(calls) >= 2
                    /\ calls[2].op = "exists"
                    /\ calls[2].out = (IF argv.audio_path \in fs THEN "True" ELSE "False")
                    /\ argv.audio_path \notin fs =>
                          /\ stdout = <<PreflightDoc(<<"Audio file not found: ",
                                                       argv.audio_path>>)>>
                          /\ exitCode = 1
                          /\ Len(calls) = 2
                          /\ engine = NotCalled

C4_Witness ==
    /\ Done
    /\ TranscribeMode
    /\ argv.audio_path = "b.wav"
    /\ calls = <<Call("import", "resolves"), Call("exists", "False")>>
    /\ exitCode = 1

\* C5: with all pre-flight checks passed and an engine that returns a mapping,
\* the one document emitted is the success shape with the engine's text,
\* segments and language (or "", [], "" for an absent key) and the command
\* line's model, batch_size and quant, and the exit status is 0.
C5_MappingReported ==
    (Done /\ engine.kind = "returns_mapping") =>
        /\ stdout = <<SuccessDoc>>
        /\ exitCode = 0

\* C6: in check-deps mode, whatever the import does, the process emits
\* {dependencies_installed: b} with b true iff the import succeeded, dies of
\* no uncaught exception and exits 0.
C6_CheckDepsAlwaysReports ==
    (Done /\ CheckMode /\ CommandLineValid) =>
        /\ stdout = << << <<"dependencies_installed",
                           JBool(CalledWith("import", "resolves"))>> >> >>
        /\ exitCode = 0
        /\ stderr = <<>>

\* C7: in install-deps mode, whatever the installer does (exit 0, exit non-zero,
\* cannot be launched), the process exits 0 and emits {installation_success: b}
\* with b true iff the installer exited 0; stderr is written only on failure
\* and stdout holds nothing but that document.
C7_InstallAlwaysReports ==
    (Done /\ InstallMode /\ CommandLineValid) =>
        /\ stdout = << << <<"installation_success", JBool(CalledWith("pip", "exit0"))>> >> >>
        /\ exitCode = 0
        /\ stderr # <<>> => ~CalledWith("pip", "exit0")

\* C8 (as stated): every document emitted in transcribe mode has the success
\* shape or the failure shape with the model, batch_size and quant keys.
C8_TwoShapes ==
    TranscribeMode =>
        \A i \in 1..Len(stdout) :
            \/ Keys(stdout[i]) = SuccessKeys /\ stdout[i][1][2] = JBool(TRUE)
            \/ Keys(stdout[i]) = FailureKeys /\ stdout[i][1][2] = JBool(FALSE)

\* C8 (amended): every document emitted in transcribe mode has the success
\* shape, the failure shape with model, batch_size and quant (an engine
\* failure, exit status 0), or the two-key shape {success: false, error} of a
\* failed pre-flight check (exit status 1).
C8_ThreeShapes ==
    TranscribeMode =>
        \A i \in 1..Len(stdout) :
            \/ /\ Keys(stdout[i]) = SuccessKeys
               /\ stdout[i][1][2] = JBool(TRUE)
               /\ engine.kind = "returns_mapping"
            \/ /\ Keys(stdout[i]) = FailureKeys
               /\ stdout[i][1][2] = JBool(FALSE)
               /\ EngineRaised
               /\ exitCode = 0
            \/ /\ Keys(stdout[i]) = PreflightKeys
               /\ stdout[i][1][2] = JBool(FALSE)
               /\ PreflightFailed
               /\ exitCode = 1

C8_Witness ==
    /\ Done
    /\ TranscribeMode
    /\ Len(stdout) = 1
    /\ Keys(stdout[1]) = PreflightKeys
    /\ CalledWith("import", "ModuleNotFoundError")

\* C9: a --quant value outside {4bit, 8bit} is rejected by the argument parser:
\* no mode is dispatched, so no dependency check, no installer run, no engine.
C9_InvalidQuantRejected ==
    InvalidQuant =>
        /\ pc \in {"start", "exited"}
        /\ args = NoArgs
        /\ calls = <<>>
        /\ engine = NotCalled
        /\ stdout = <<>>

C9_Witness ==
    /\ Done
    /\ argv.quant = "2bit"
    /\ argv.install_deps
    /\ argv.audio_path = "a.wav"
    /\ exitCode = 2

\* C10: dispatch is exclusive, check-deps before install-deps before
\* transcribe: the installer runs only with --install-deps and without
\* --check-deps, the engine is constructed only with neither flag and after the
\* three pre-flight checks passed, each at most once and never both, and with
\* either flag set the audio path is never looked at.
C10_ExclusiveDispatch ==
    /\ CountOf("pip") <= 1
    /\ CountOf("LightningWhisperMLX") <= 1
    /\ ~(Called("pip") /\ Called("LightningWhisperMLX"))
    /\ Called("pip") => InstallMode
    /\ Called("LightningWhisperMLX") =>
          /\ TranscribeMode
          /\ ~PathMissing
          /\ Len(calls) >= 2
          /\ calls[1] = Call("import", "resolves")
          /\ calls[2] = Call("exists", "True")
          /\ argv.audio_path \in fs
    /\ CheckMode => \A i \in 1..Len(calls) : calls[i].op = "import"
    /\ InstallMode => \A i \in 1..Len(calls) : calls[i].op = "pip"
    /\ ~TranscribeMode =>
          /\ engine = NotCalled
          /\ \A i \in 1..Len(stdout) :
                Keys(stdout[i]) = (IF CheckMode THEN <<"dependencies_installed">>
                                   ELSE <<"installation_success">>)

C10_Witness ==
    /\ Done
    /\ argv.check_deps
    /\ argv.install_deps
    /\ argv.audio_path = "b.wav"
    /\ Len(stdout) = 1
    /\ calls = <<Call("import", "resolves")>>

====
